---- MODULE Spec2Model ----
(***************************************************************************)
(* Model of sktime/markovprocess/bhmm/hidden/api.py: the Python wrappers   *)
(* of the HMM kernel (forward, backward, state_probabilities,              *)
(* state_counts, transition_counts, viterbi, sample_path) and the          *)
(* module-level ones cache (_ones, _ones_size).                            *)
(*                                                                         *)
(* Conventions.  An optional Python value is a sequence of length 0 (None) *)
(* or 1 (the value).  A matrix is a sequence of rows, a row a sequence of  *)
(* entries; the number of columns N travels with the call.  alpha, beta    *)
(* and pobs hold naturals; gamma holds fractions <<n, d>> in lowest terms, *)
(* <<0, 0>> standing for NaN (0/0).  An exception is the name of its class *)
(* and the source line that raises it.                                     *)
(***************************************************************************)
EXTENDS Integers, Sequences, FiniteSets, TLC

VARIABLES
    _ones,          \* api.py:108  optional all-ones column vector
    _ones_size,     \* api.py:109  the N the vector was built for
    pc,             \* the sequential caller: "idle" or "returned"
    call,           \* the entry point called last and its arguments
    result,         \* what that call did: exception, kernel call, return value
    raised_classes, \* the exception classes input validation has raised so far
    procs           \* the concurrent state_probabilities invocations

vars == <<_ones, _ones_size, pc, call, result, raised_classes, procs>>

\* ---------------------------------------------------------------- bounds
MaxRows == 3
MaxN == 2
MaxSeed == 1
NumProcs == 2

\* ------------------------------------------------------- optional values
None == <<>>
Some(x) == <<x>>
IsNone(o) == o = <<>>
Val(o) == o[1]

Min(a, b) == IF a < b THEN a ELSE b

\* ------------------------------------------------------------- matrices
\* The entry of the input matrix number seed at row t, column i.
Entry(seed, t, i) == (seed + t + 2 * i) % 3

Mat(seed, R, N) == [t \in 1..R |-> [i \in 1..N |-> Entry(seed, t, i)]]

\* np.ones(N)[:, None]
Ones(N) == [k \in 1..N |-> 1]

\* M[:T] for T >= 0
Take(M, T) == SubSeq(M, 1, Min(T, Len(M)))

RECURSIVE GCD(_, _)
GCD(a, b) == IF b = 0 THEN a ELSE GCD(b, a % b)

\* x / s in floating point: 0/0 is NaN, anything else the exact quotient.
Frac(x, s) == IF s = 0 THEN <<0, 0>> ELSE <<x \div GCD(x, s), s \div GCD(x, s)>>

\* A freshly allocated or caller-supplied float buffer holding zeros.
Zeros(R, N) == [t \in 1..R |-> [i \in 1..N |-> Frac(0, 1)]]

\* An integer matrix read as floats.
AsFloat(M) == [t \in 1..Len(M) |-> [i \in 1..Len(M[t]) |-> Frac(M[t][i], 1)]]

MulRow(a, b) == [i \in 1..Len(a) |-> a[i] * b[i]]

\* alpha * beta for operands of equal shape
Multiply(a, b) == [t \in 1..Len(a) |-> MulRow(a[t], b[t])]

\* Whether np.multiply(a, b, out) can broadcast R-row operands into a G-row out.
Broadcastable(R, G) == R = G \/ R = 1

\* np.multiply(a, b, out) with a G-row out: the operands as they are, or one
\* row broadcast to every row of out.
MultiplyOut(a, b, G) ==
    IF Len(a) = G THEN Multiply(a, b)
    ELSE [t \in 1..G |-> MulRow(a[1], b[1])]

RECURSIVE DotFrom(_, _, _)
DotFrom(row, ones, k) ==
    IF k > Len(row) THEN 0 ELSE row[k] * ones[k] + DotFrom(row, ones, k + 1)

\* np.dot(row, ones) for a row and a column vector of the same length
Dot(row, ones) == DotFrom(row, ones, 1)

\* np.divide(gamma_out, np.dot(gamma_out, _ones), out=gamma_out)
Normalize(g, ones) ==
    [t \in 1..Len(g) |-> [i \in 1..Len(g[t]) |-> Frac(g[t][i], Dot(g[t], ones))]]

\* ------------------------------------------------------- results of calls
NoResult == [raised |-> "None", line |-> 0, impl |-> None, written |-> FALSE,
             ret |-> None, out |-> None, size_read |-> None, recreated |-> FALSE,
             norm_len |-> None]

\* raise cls(...) at the given line: nothing else happens.
Raise(cls, line) == [NoResult EXCEPT !.raised = cls, !.line = line]

\* return _impl.fn(...): the kernel gets trajectory length T (optional: the
\* wrapper may pass None) and N, and fills the output buffer it is handed.
ImplCall(fn, T, N, supplied) ==
    [NoResult EXCEPT !.impl = Some([fn |-> fn, T |-> T, N |-> N]),
                     !.written = supplied]

\* ------------------------------------------------------------ forward
\* api.py:60-70.  Line 61 assigns the default to T_, so T itself stays None:
\* the comparison of line 67 then raises Python's TypeError, and the kernel is
\* handed T as the caller passed it.
forward(P, N, T, alpha) ==
    IF ~IsNone(T) /\ Val(T) > P THEN Raise("TypeError", 63)
    ELSE IF IsNone(alpha) THEN ImplCall("forward", T, N, FALSE)
    ELSE IF IsNone(T) THEN Raise("TypeError", 67)
    ELSE IF Val(T) > Val(alpha) THEN Raise("TypeError", 68)
    ELSE ImplCall("forward", T, N, TRUE)

\* ----------------------------------------------------------- backward
\* api.py:94-104
backward(P, N, T, beta_out) ==
    LET T1 == IF IsNone(T) THEN P ELSE Val(T)
    IN  IF ~IsNone(T) /\ Val(T) > P THEN Raise("ValueError", 97)
        ELSE IF IsNone(beta_out) THEN ImplCall("backward", Some(T1), N, FALSE)
        ELSE IF T1 > Val(beta_out) THEN Raise("ValueError", 102)
        ELSE ImplCall("backward", Some(T1), N, TRUE)

\* ------------------------------------------------- state_probabilities
\* A variant of NeedsRefresh that rebuilds the vector only when N grows.
NeedsRefreshGrowOnly(N, size) == size < N

\* api.py:141  the test that decides whether the cached vector is rebuilt
NeedsRefresh(N, size) == size # N

\* A variant of OnesCacheUpdate that builds the vector once and afterwards
\* only records the new size.
OnesCacheUpdateKeepsVector(N, ones, size) ==
    IF NeedsRefresh(N, size)
    THEN [ones |-> IF IsNone(ones) THEN Some(Ones(N)) ELSE ones, size |-> N,
          recreated |-> IsNone(ones)]
    ELSE [ones |-> ones, size |-> size, recreated |-> FALSE]

\* api.py:141-144  the cache after the block, and whether line 143 ran
OnesCacheUpdate(N, ones, size) ==
    IF NeedsRefresh(N, size)
    THEN [ones |-> Some(Ones(N)), size |-> N, recreated |-> TRUE]
    ELSE [ones |-> ones, size |-> size, recreated |-> FALSE]

\* api.py:149-153
TrajectoryLength(alpha, T, gamma_out) ==
    IF ~IsNone(T) THEN Val(T)
    ELSE IF IsNone(gamma_out) THEN Len(alpha)
    ELSE Val(gamma_out)

\* api.py:155-163  the unnormalised product, or None when np.multiply cannot
\* broadcast its operands into gamma_out (numpy's ValueError).
Product(alpha, beta, T, gamma_out) ==
    IF IsNone(gamma_out)
    THEN LET g == Multiply(alpha, beta)
         IN  Some(IF T < Len(g) THEN Take(g, T) ELSE g)
    ELSE LET G == Val(gamma_out)
             a == IF G < Len(alpha) THEN Take(alpha, T) ELSE alpha
             b == IF G < Len(alpha) THEN Take(beta, T) ELSE beta
         IN  IF Broadcastable(Len(a), G) THEN Some(MultiplyOut(a, b, G)) ELSE None

\* api.py:160-163  the line of the np.multiply call that is made
ProductLine(alpha, gamma_out) == IF Val(gamma_out) < Len(alpha) THEN 161 ELSE 163

\* api.py:165-167  g is the product already stored in gamma_out; ones is _ones
\* as read at this line.  np.dot fails on a vector of another length (or on
\* None) and leaves the product in the buffer.
NormalizeStep(g, N, supplied, ones) ==
    LET left == IF supplied THEN Some(AsFloat(g)) ELSE None
    IN  IF IsNone(ones)
        THEN [Raise("TypeError", 165) EXCEPT !.out = left, !.written = supplied]
        ELSE IF Len(Val(ones)) # N
        THEN [Raise("ValueError", 165) EXCEPT !.out = left, !.written = supplied,
                                             !.norm_len = Some(Len(Val(ones)))]
        ELSE LET gamma == Normalize(g, Val(ones))
             IN  [NoResult EXCEPT !.ret = Some(gamma),
                                  !.out = IF supplied THEN Some(gamma) ELSE None,
                                  !.written = supplied,
                                  !.norm_len = Some(Len(Val(ones)))]

\* api.py:139-167  the whole call, from the cache (ones, size) it finds: the
\* result and the cache it leaves.  gamma_out is the row count of the caller's
\* buffer, which holds zeros before the call.
state_probabilities(alpha, beta, N, T, gamma_out, ones, size) ==
    LET c == OnesCacheUpdate(N, ones, size)
        buf == IF IsNone(gamma_out) THEN None ELSE Some(Zeros(Val(gamma_out), N))
        res ==
            IF Len(alpha) # Len(beta)
            THEN [Raise("ValueError", 147) EXCEPT !.out = buf]
            ELSE LET p == Product(alpha, beta, TrajectoryLength(alpha, T, gamma_out),
                                  gamma_out)
                 IN  IF IsNone(p)
                     THEN [Raise("ValueError", ProductLine(alpha, gamma_out))
                               EXCEPT !.out = buf]
                     ELSE NormalizeStep(Val(p), N, ~IsNone(gamma_out), c.ones)
    IN  [res |-> [res EXCEPT !.size_read = Some(size), !.recreated = c.recreated],
         ones |-> c.ones, size |-> c.size]

\* --------------------------------------------------------- state_counts
RECURSIVE ColumnSum(_, _, _)
ColumnSum(M, i, t) == IF t > Len(M) THEN 0 ELSE M[t][i] + ColumnSum(M, i, t + 1)

\* api.py:190  np.sum(gamma[0:T], axis=0, out=out)
state_counts(gamma, N, T, out) ==
    [NoResult EXCEPT !.ret = Some([i \in 1..N |-> Frac(ColumnSum(Take(gamma, T), i, 1), 1)]),
                     !.written = out]

\* ---------------------------------------------------- transition_counts
\* api.py:222-232
transition_counts(P, N, T, out) ==
    IF ~IsNone(T) /\ Val(T) > P THEN Raise("ValueError", 225)
    ELSE ImplCall("transition_counts", Some(IF IsNone(T) THEN P ELSE Val(T)), N, out)

\* -------------------------------------------------------------- viterbi
\* api.py:254-258
viterbi(P, N) == ImplCall("viterbi", Some(P), N, FALSE)

\* ---------------------------------------------------------- sample_path
\* api.py:281-288  the alpha row count is tested only when T is given.
sample_path(alphaRows, P, N, T) ==
    IF IsNone(T) THEN ImplCall("sample_path", Some(P), N, FALSE)
    ELSE IF Val(T) > P \/ Val(T) > alphaRows THEN Raise("ValueError", 285)
    ELSE ImplCall("sample_path", Some(Val(T)), N, FALSE)

\* ------------------------------------------------ the sequential caller
NoCall == [op |-> "none"]

\* The lines whose raise statement reports an argument the wrapper rejected.
ValidationLines == {63, 68, 97, 102, 147, 225, 285}

OptT == {None} \cup {Some(T) : T \in 0..(MaxRows + 1)}
OptRows == {None} \cup {Some(R) : R \in 0..MaxRows}
RowCounts == 1..MaxRows
StateCounts == 1..MaxN
Seeds == 0..MaxSeed

\* A call returns: c is the call, r what it did, and
\* (ones, size) the module-level cache it leaves.
Returns(c, r, ones, size) ==
    /\ pc' = "returned"
    /\ call' = c
    /\ result' = r
    /\ _ones' = ones
    /\ _ones_size' = size
    /\ raised_classes' = IF r.line \in ValidationLines
                         THEN raised_classes \cup {r.raised}
                         ELSE raised_classes
    /\ UNCHANGED procs

\* A variant of CallForward that drops the module-level cache.
CallForwardClearsCache ==
    /\ pc = "idle"
    /\ \E P \in RowCounts, N \in StateCounts, T \in OptT, alpha \in OptRows :
           Returns([op |-> "forward", pobs |-> P, N |-> N, T |-> T, buf |-> alpha],
                   forward(P, N, T, alpha), None, 0)

CallForward ==
    /\ pc = "idle"
    /\ \E P \in RowCounts, N \in StateCounts, T \in OptT, alpha \in OptRows :
           Returns([op |-> "forward", pobs |-> P, N |-> N, T |-> T, buf |-> alpha],
                   forward(P, N, T, alpha), _ones, _ones_size)

CallBackward ==
    /\ pc = "idle"
    /\ \E P \in RowCounts, N \in StateCounts, T \in OptT, beta_out \in OptRows :
           Returns([op |-> "backward", pobs |-> P, N |-> N, T |-> T, buf |-> beta_out],
                   backward(P, N, T, beta_out), _ones, _ones_size)

CallStateProbabilities ==
    /\ pc = "idle"
    /\ \E Ra \in RowCounts, Rb \in RowCounts, N \in StateCounts, sa \in Seeds,
          sb \in Seeds, T \in OptT, gamma_out \in OptRows :
           LET alpha == Mat(sa, Ra, N)
               beta == Mat(sb, Rb, N)
               r == state_probabilities(alpha, beta, N, T, gamma_out, _ones, _ones_size)
           IN  Returns([op |-> "state_probabilities", alpha |-> alpha, beta |-> beta,
                        N |-> N, T |-> T, buf |-> gamma_out],
                       r.res, r.ones, r.size)

CallStateCounts ==
    /\ pc = "idle"
    /\ \E R \in RowCounts, N \in StateCounts, s \in Seeds, T \in 0..(MaxRows + 1),
          out \in BOOLEAN :
           Returns([op |-> "state_counts", gamma |-> Mat(s, R, N), N |-> N,
                    T |-> Some(T), buf |-> out],
                   state_counts(Mat(s, R, N), N, T, out), _ones, _ones_size)

CallTransitionCounts ==
    /\ pc = "idle"
    /\ \E P \in RowCounts, N \in StateCounts, T \in OptT, out \in BOOLEAN :
           Returns([op |-> "transition_counts", pobs |-> P, N |-> N, T |-> T,
                    buf |-> out],
                   transition_counts(P, N, T, out), _ones, _ones_size)

CallViterbi ==
    /\ pc = "idle"
    /\ \E P \in RowCounts, N \in StateCounts :
           Returns([op |-> "viterbi", pobs |-> P, N |-> N],
                   viterbi(P, N), _ones, _ones_size)

CallSamplePath ==
    /\ pc = "idle"
    /\ \E Ra \in RowCounts, P \in RowCounts, N \in StateCounts, T \in OptT :
           Returns([op |-> "sample_path", alpha |-> Ra, pobs |-> P, N |-> N, T |-> T],
                   sample_path(Ra, P, N, T), _ones, _ones_size)

\* The caller takes the result (or handles the exception) and is idle again.
Resume ==
    /\ pc = "returned"
    /\ pc' = "idle"
    /\ call' = NoCall
    /\ result' = NoResult
    /\ UNCHANGED <<_ones, _ones_size, raised_classes, procs>>

Init ==
    /\ _ones = None
    /\ _ones_size = 0
    /\ pc = "idle"
    /\ call = NoCall
    /\ result = NoResult
    /\ raised_classes = {}
    /\ procs = <<>>

Next ==
    \/ CallForward
    \/ CallBackward
    \/ CallStateProbabilities
    \/ CallStateCounts
    \/ CallTransitionCounts
    \/ CallViterbi
    \/ CallSamplePath
    \/ Resume

Spec == Init /\ [][Next]_vars

\* ------------------------------------------- properties, sequential use
\* The class the wrappers use for a rejected argument (Python's ValueError).
InvalidArgument == "ValueError"

Returned(op) == pc = "returned" /\ call.op = op

TakesT == {"forward", "backward", "transition_counts", "sample_path"}
TakesBuffer == {"forward", "backward"}

\* C1: a call of forward, backward, transition_counts or sample_path with an
\* explicit T above the row count of pobs, or (forward, backward) above the
\* row count of the supplied output buffer, fails with the invalid-argument
\* error, without the kernel being invoked or an output buffer written.
C1_ExplicitTTooLargeRejected ==
    (/\ pc = "returned"
     /\ call.op \in TakesT
     /\ ~IsNone(call.T)
     /\ \/ Val(call.T) > call.pobs
        \/ /\ call.op \in TakesBuffer
           /\ ~IsNone(call.buf)
           /\ Val(call.T) > Val(call.buf))
    => /\ result.raised = InvalidArgument
       /\ IsNone(result.impl)
       /\ ~result.written

\* The call c made again with trajectory length T.
Redo(c, T) ==
    CASE c.op = "forward" -> forward(c.pobs, c.N, T, c.buf)
      [] c.op = "backward" -> backward(c.pobs, c.N, T, c.buf)
      [] c.op = "transition_counts" -> transition_counts(c.pobs, c.N, T, c.buf)
      [] c.op = "sample_path" -> sample_path(c.alpha, c.pobs, c.N, T)

\* C2: with T omitted (and any supplied output buffer holding at least as many
\* rows as pobs) the kernel is handed the row count of pobs, and the call does
\* what the same call with T = that row count does.
C2_OmittedTIsPobsRows ==
    (/\ pc = "returned"
     /\ call.op \in TakesT
     /\ IsNone(call.T)
     /\ call.op \in TakesBuffer => (IsNone(call.buf) \/ Val(call.buf) >= call.pobs))
    => /\ ~IsNone(result.impl)
       /\ Val(result.impl).T = Some(call.pobs)
       /\ result = Redo(call, Some(call.pobs))

\* C3: every validation failure, of whichever entry point, is reported with
\* one and the same exception class.
C3_OneErrorClass == Cardinality(raised_classes) <= 1

\* C4: sample_path fails with the invalid-argument error whenever the T it
\* works with (explicit, or the pobs row count) exceeds the row count of alpha
\* or of pobs, and never hands the kernel a larger T.
C4_SamplePathBoundsT ==
    Returned("sample_path") =>
        LET T == IF IsNone(call.T) THEN call.pobs ELSE Val(call.T)
        IN  /\ (T > call.alpha \/ T > call.pobs) => result.raised = InvalidArgument
            /\ ~IsNone(result.impl) =>
                   /\ Val(Val(result.impl).T) <= call.alpha
                   /\ Val(Val(result.impl).T) <= call.pobs

RECURSIVE RowSum(_, _)
RowSum(row, k) == IF k > Len(row) THEN 0 ELSE row[k] + RowSum(row, k + 1)

\* alpha[t,:] * beta[t,:] divided by its own sum
Posterior(a, b) ==
    LET prod == [i \in 1..Len(a) |-> a[i] * b[i]]
    IN  [i \in 1..Len(a) |-> Frac(prod[i], RowSum(prod, 1))]

\* C5: for alpha and beta of equal row count, state_probabilities returns a
\* gamma of exactly T rows (T the explicit argument, else the row count of
\* gamma_out, else that of alpha), row t being the normalised product of
\* alpha[t,:] and beta[t,:], whenever a supplied gamma_out has at least T rows.
C5_GammaHasTRows ==
    Returned("state_probabilities") =>
        LET T == IF ~IsNone(call.T) THEN Val(call.T)
                 ELSE IF ~IsNone(call.buf) THEN Val(call.buf)
                 ELSE Len(call.alpha)
        IN  (/\ Len(call.alpha) = Len(call.beta)
             /\ 1 <= T /\ T <= Len(call.alpha)
             /\ IsNone(call.buf) \/ Val(call.buf) >= T)
            => /\ result.raised = "None"
               /\ Len(Val(result.ret)) = T
               /\ \A t \in 1..T :
                      Val(result.ret)[t] = Posterior(call.alpha[t], call.beta[t])

\* C6: a state_probabilities call with alpha and beta of different row counts
\* fails with the invalid-argument error and changes nothing: not the caller's
\* gamma_out, not _ones, not _ones_size.
C6_MismatchLeavesNoTrace ==
    [][(/\ pc = "idle"
        /\ pc' = "returned"
        /\ call'.op = "state_probabilities"
        /\ Len(call'.alpha) # Len(call'.beta))
       => /\ result'.raised = InvalidArgument
          /\ IsNone(result'.ret)
          /\ result'.out = (IF IsNone(call'.buf) THEN None
                            ELSE Some(Zeros(Val(call'.buf), call'.N)))
          /\ _ones' = _ones
          /\ _ones_size' = _ones_size]_vars

\* What the caller observes of a call.
Outcome(r) == [raised |-> r.raised, ret |-> r.ret, out |-> r.out]

\* C7: in sequential use (N >= 1) the outcome of every state_probabilities
\* call, the returned gamma or the exception, is the outcome the same call has
\* as the first call of a fresh process.
C7_CacheHasNoEffect ==
    Returned("state_probabilities") =>
        Outcome(result) =
            Outcome(state_probabilities(call.alpha, call.beta, call.N, call.T,
                                        call.buf, None, 0).res)

\* A call that found the cache populated by an earlier call, after some call
\* failed, and returned a gamma.
C7_Witness ==
    /\ Returned("state_probabilities")
    /\ ~result.recreated
    /\ ~IsNone(result.ret)
    /\ raised_classes # {}

\* The lines at which state_probabilities raises before it normalises.
BeforeNormalize == {147, 161, 163}

CacheConsistent ==
    \/ IsNone(_ones) /\ _ones_size = 0
    \/ ~IsNone(_ones) /\ Val(_ones) = Ones(_ones_size)

\* C8: in sequential use (N >= 1) the cache is either untouched (_ones unset,
\* _ones_size = 0) or an all-ones vector of length _ones_size; only a
\* state_probabilities call whose N differs from _ones_size recreates the
\* vector; and a call that reaches the normalisation reads a vector of its N.
C8_CacheConsistent ==
    /\ [](/\ CacheConsistent
          /\ Returned("state_probabilities") /\ result.line \notin BeforeNormalize
                 => result.norm_len = Some(call.N))
    /\ [][/\ (pc' = "returned" /\ result'.recreated)
                 => (call'.op = "state_probabilities" /\ call'.N # _ones_size)
          /\ _ones' # _ones => (pc' = "returned" /\ result'.recreated)]_vars

\* A call that found a vector built for another N, rebuilt it for its own and
\* normalised with it.
C8_Witness ==
    /\ Returned("state_probabilities")
    /\ result.recreated
    /\ result.size_read \notin {Some(0), Some(MaxN)}
    /\ call.N = MaxN
    /\ result.norm_len = Some(MaxN)
    /\ ~IsNone(result.ret)

WithoutCache ==
    {"forward", "backward", "state_counts", "transition_counts", "viterbi",
     "sample_path"}

\* C10: a call of forward, backward, state_counts, transition_counts, viterbi
\* or sample_path, whether it returns or raises, leaves _ones and _ones_size
\* as they were.
C10_OthersLeaveCache ==
    [][(pc = "idle" /\ pc' = "returned" /\ call'.op \in WithoutCache)
       => (_ones' = _ones /\ _ones_size' = _ones_size)]_vars

\* forward raised after state_probabilities had populated the cache.
C10_Witness ==
    /\ Returned("forward")
    /\ result.raised # "None"
    /\ _ones_size = MaxN
    /\ _ones = Some(Ones(MaxN))

\* ------------------------------------- concurrent state_probabilities
\* Each invocation runs api.py:139-167 with gamma_out omitted, the accesses to
\* the module-level cache being separate steps:
\*   "start"  line 141  read _ones_size and compare it with N
\*   "w_ones" line 143  write _ones
\*   "w_size" line 144  write _ones_size
\*   "check"  lines 146-163  compare the row counts, form the product
\*   "norm"   line 165  read _ones and normalise
Invocation(N, Rb) ==
    [at |-> "start", alpha |-> Mat(0, MaxRows, N), beta |-> Mat(MaxSeed, Rb, N),
     N |-> N, g |-> <<>>, res |-> NoResult]

Invocations == {Invocation(N, Rb) : N \in StateCounts, Rb \in {MaxRows - 1, MaxRows}}

\* The cache as sequential use leaves it.
SequentialCaches ==
    {[ones |-> None, size |-> 0]} \cup {[ones |-> Some(Ones(k)), size |-> k] : k \in StateCounts}

Step(p, at, new) ==
    /\ procs[p].at = at
    /\ procs' = [procs EXCEPT ![p] = new]
    /\ UNCHANGED <<pc, call, result, raised_classes>>

\* api.py:141
ReadSize(p) ==
    LET me == procs[p]
    IN  /\ Step(p, "start",
                [me EXCEPT !.res.size_read = Some(_ones_size),
                           !.at = IF NeedsRefresh(me.N, _ones_size)
                                  THEN "w_ones" ELSE "check"])
        /\ UNCHANGED <<_ones, _ones_size>>

\* A variant of CacheWrite with lines 143 and 144 in the other order.
CacheWriteSizeFirst(p) ==
    LET me == procs[p]
    IN  \/ /\ Step(p, "w_ones", [me EXCEPT !.at = "w_size"])
           /\ _ones_size' = me.N
           /\ UNCHANGED _ones
        \/ /\ Step(p, "w_size", [me EXCEPT !.res.recreated = TRUE, !.at = "check"])
           /\ _ones' = Some(Ones(me.N))
           /\ UNCHANGED _ones_size

\* api.py:143-144
CacheWrite(p) ==
    LET me == procs[p]
    IN  \/ /\ Step(p, "w_ones", [me EXCEPT !.res.recreated = TRUE, !.at = "w_size"])
           /\ _ones' = Some(Ones(me.N))
           /\ UNCHANGED _ones_size
        \/ /\ Step(p, "w_size", [me EXCEPT !.at = "check"])
           /\ _ones_size' = me.N
           /\ UNCHANGED _ones

\* api.py:146-163
CheckAndMultiply(p) ==
    LET me == procs[p]
        T == TrajectoryLength(me.alpha, None, None)
    IN  /\ Step(p, "check",
                IF Len(me.alpha) # Len(me.beta)
                THEN [me EXCEPT !.res.raised = "ValueError", !.res.line = 147,
                                !.at = "done"]
                ELSE [me EXCEPT !.g = Val(Product(me.alpha, me.beta, T, None)),
                                !.at = "norm"])
        /\ UNCHANGED <<_ones, _ones_size>>

\* api.py:165-167
NormalizeRows(p) ==
    LET me == procs[p]
        r == NormalizeStep(me.g, me.N, FALSE, _ones)
    IN  /\ Step(p, "norm",
                [me EXCEPT !.res = [r EXCEPT !.size_read = me.res.size_read,
                                             !.recreated = me.res.recreated],
                           !.at = "done"])
        /\ UNCHANGED <<_ones, _ones_size>>

InitC ==
    /\ \E c \in SequentialCaches : _ones = c.ones /\ _ones_size = c.size
    /\ pc = "concurrent"
    /\ call = NoCall
    /\ result = NoResult
    /\ raised_classes = {}
    /\ procs \in [1..NumProcs -> Invocations]

NextC ==
    \/ \E p \in DOMAIN procs : ReadSize(p)
    \/ \E p \in DOMAIN procs : CacheWrite(p)
    \/ \E p \in DOMAIN procs : CheckAndMultiply(p)
    \/ \E p \in DOMAIN procs : NormalizeRows(p)

SpecC == InitC /\ [][NextC]_vars

\* ------------------------------------------ properties, concurrent use
AllDone == \A p \in DOMAIN procs : procs[p].at = "done"

SameN == \A p, q \in DOMAIN procs : procs[p].N = procs[q].N

\* Every finished invocation that reached line 165 read a vector of its own
\* N there, and once all have finished _ones_size is the length of _ones.
CacheSafe ==
    /\ \A p \in DOMAIN procs :
           (procs[p].at = "done" /\ procs[p].res.line # 147)
               => procs[p].res.norm_len = Some(procs[p].N)
    /\ AllDone => (~IsNone(_ones) /\ Len(Val(_ones)) = _ones_size)

\* C9 as stated: under every interleaving of concurrent state_probabilities
\* invocations, of equal or different N, each normalises with a ones vector of
\* its own N and in the end _ones_size is the length of _ones.
C9_ConcurrentCallsSafe == DOMAIN procs # {} => CacheSafe

\* C9 amended: the same, for invocations that all have the same N and start
\* from a cache as sequential use leaves it.
C9_SameNCallsSafe == (DOMAIN procs # {} /\ SameN) => CacheSafe

\* All invocations have the same N, found a vector built for another N, each
\* rebuilt it, and all have normalised.
C9_Witness ==
    /\ DOMAIN procs # {}
    /\ \A p \in DOMAIN procs :
           /\ procs[p].at = "done"
           /\ procs[p].N = MaxN
           /\ procs[p].res.recreated
           /\ procs[p].res.size_read = Some(1)
           /\ ~IsNone(procs[p].res.ret)

====
